---------------------------- MODULE Spec2Model ----------------------------
(***************************************************************************)
(* A model of package tarball (src/tarball.go): CombineTarballs,           *)
(* CreateGzippedTarball, GetFilePathsWithRegex, ReadFileFromGzippedTarball *)
(* and WriteTarballToTarWriter, over an abstract gzip/tar codec.           *)
(*                                                                         *)
(* A string is a sequence of one-character strings.  A gzipped tarball is  *)
(* a record [gz, ents, end]: gz says whether the gzip header decodes, ents *)
(* are the entries the tar framing yields, and end is "eof" for a clean    *)
(* end marker or "err" for a stream that stops decoding after ents.  An    *)
(* entry is [name, size, mode, data]; data shorter than size is a payload  *)
(* the stream cuts short.                                                  *)
(***************************************************************************)
EXTENDS Integers, Sequences, FiniteSets, TLC

VARIABLES
    pc,     \* position of the one running call: "idle", a loop label, "done"
    call,   \* the call and its arguments
    disk,   \* the file system: clean path -> node
    readers,\* the byte sources still to be read by the call, as archives
    rd,     \* the gzip/tar reader the call has open
    tw,     \* the tar writer the call writes to
    dst,    \* the open destination file of CreateGzippedTarball
    hdr,    \* the header returned by the last tarReader.Next()
    todo,   \* CreateGzippedTarball: the file paths still to be added
    log,    \* CreateGzippedTarball: what the loop did to each file path
    old,    \* the file system as the call found it
    ret     \* what the call returned

vars == <<pc, call, disk, readers, rd, tw, dst, hdr, todo, log, old, ret>>

-----------------------------------------------------------------------------
(* Bounds of the model.                                                    *)

MaxEntries == 3     \* entries in the archives handed to one call
MaxSources == 2     \* archives handed to CombineTarballs

-----------------------------------------------------------------------------
(* Strings.                                                                *)

Chars == <<".", "/", "a", "b", "d", "o", "s", "t">>   \* in byte order

Rank(c) == CHOOSE i \in 1..Len(Chars) : Chars[i] = c

Min(a, b) == IF a < b THEN a ELSE b

\* s < t in Go's byte-wise string order (sort.Strings).
StrLess(s, t) ==
    \E i \in 1..(Min(Len(s), Len(t)) + 1) :
        /\ \A j \in 1..(i - 1) : s[j] = t[j]
        /\ \/ i = Len(s) + 1 /\ i <= Len(t)
           \/ i <= Len(s) /\ i <= Len(t) /\ Rank(s[i]) < Rank(t[i])

\* sort.Strings of a finite set of distinct strings.
SortStrings(S) ==
    [i \in 1..Cardinality(S) |->
        CHOOSE s \in S : Cardinality({t \in S : StrLess(t, s)}) = i - 1]

HasPrefix(s, p) == Len(p) <= Len(s) /\ SubSeq(s, 1, Len(p)) = p

\* A mutant of TrimPrefix: every leading occurrence is removed.
RECURSIVE TrimPrefixAll(_, _)
TrimPrefixAll(s, p) ==
    IF p # <<>> /\ HasPrefix(s, p)
    THEN TrimPrefixAll(SubSeq(s, Len(p) + 1, Len(s)), p)
    ELSE s

\* strings.TrimPrefix
TrimPrefix(s, p) ==
    IF HasPrefix(s, p) THEN SubSeq(s, Len(p) + 1, Len(s)) ELSE s

-----------------------------------------------------------------------------
(* Regular expressions: the fragment of literals and "." (any character);  *)
(* a pattern holding "(" has an unclosed group and does not compile.       *)

Compiles(re) == \A k \in 1..Len(re) : re[k] # "("

MatchAt(re, s, i) ==
    /\ i + Len(re) - 1 <= Len(s)
    /\ \A k \in 1..Len(re) : re[k] = "." \/ re[k] = s[i + k - 1]

\* A mutant of MatchString: the match is anchored at the start of the name.
MatchStringAnchored(re, s) == MatchAt(re, s, 1)

\* (*regexp.Regexp).MatchString: the pattern matches somewhere in s.
MatchString(re, s) == \E i \in 1..(Len(s) + 1) : MatchAt(re, s, i)

-----------------------------------------------------------------------------
(* Paths (path/filepath), for relative paths without "..".                 *)

Slash == <<"/">>
Dot == <<".">>

IndexByte(s, c) ==
    IF \E i \in 1..Len(s) : s[i] = c
    THEN CHOOSE i \in 1..Len(s) : s[i] = c /\ \A j \in 1..(i - 1) : s[j] # c
    ELSE 0

LastIndexByte(s, c) ==
    IF \E i \in 1..Len(s) : s[i] = c
    THEN CHOOSE i \in 1..Len(s) : s[i] = c /\ \A j \in (i + 1)..Len(s) : s[j] # c
    ELSE 0

\* The elements of a path between its separators.
RECURSIVE Segs(_)
Segs(s) ==
    LET i == IndexByte(s, "/")
    IN  IF i = 0 THEN <<s>>
        ELSE <<SubSeq(s, 1, i - 1)>> \o Segs(SubSeq(s, i + 1, Len(s)))

RECURSIVE JoinSegs(_)
JoinSegs(ss) ==
    IF ss = <<>> THEN <<>>
    ELSE IF Len(ss) = 1 THEN ss[1]
    ELSE ss[1] \o Slash \o JoinSegs(Tail(ss))

KeepSeg(x) == x # <<>> /\ x # Dot

\* filepath.Clean: empty and "." elements dropped, "" becomes ".".
Clean(p) ==
    LET kept == SelectSeq(Segs(p), KeepSeg)
    IN  IF kept = <<>> THEN Dot ELSE JoinSegs(kept)

\* filepath.Dir: Clean of everything up to the last separator.
Dir(p) == Clean(SubSeq(p, 1, LastIndexByte(p, "/")))

\* filepath.Base of a clean path.
Base(p) == SubSeq(p, LastIndexByte(p, "/") + 1, Len(p))

\* filepath.Join(dir, name)
Join(dir, name) == Clean(dir \o Slash \o name)

\* filepath.Rel(base, targ) for targ at or below base.
Rel(base, targ) ==
    LET b == Clean(base)
        t == Clean(targ)
    IN  IF b = t THEN [ok |-> TRUE, path |-> Dot]
        ELSE IF b = Dot THEN [ok |-> TRUE, path |-> t]
        ELSE IF HasPrefix(t, b \o Slash)
             THEN [ok |-> TRUE, path |-> SubSeq(t, Len(b) + 2, Len(t))]
        ELSE [ok |-> FALSE, path |-> <<>>]

-----------------------------------------------------------------------------
(* Errors and archives.                                                    *)

NoErr == [kind |-> "nil", path |-> <<>>]
Err(k) == [kind |-> k, path |-> <<>>]
ErrAt(k, p) == [kind |-> k, path |-> p]

Entry(n, d) == [name |-> n, size |-> Len(d), mode |-> "reg", data |-> d]

\* The entry whose payload the stream cuts short before its last byte.
Cut(e) == [e EXCEPT !.data = SubSeq(e.data, 1, Len(e.data) - 1)]

Header(e) == [name |-> e.name, size |-> e.size, mode |-> e.mode]
NoHeader == [name |-> <<>>, size |-> 0, mode |-> "none"]

Tgz(es) == [gz |-> TRUE, ents |-> es, end |-> "eof"]
BadGzip == [gz |-> FALSE, ents |-> <<>>, end |-> "err"]
NoBytes == [nil |-> TRUE]

Full(e) == Len(e.data) = e.size

\* A stream decodes to the end: every payload is whole and the end marker is there.
Valid(ar) ==
    /\ ar.gz
    /\ ar.end = "eof"
    /\ \A i \in 1..Len(ar.ents) : Full(ar.ents[i])

NameSet == { <<"b", "/", "a">>, <<"b", "/", "b", "/", "a">> }
DataSet == { <<>>, <<1>> }
Entries == { Entry(n, d) : n \in NameSet, d \in DataSet }

SeqsUpTo(S, n) == UNION { [1..k -> S] : k \in 0..n }

\* The streams that hold the entries es: one that decodes to its end, one
\* that stops decoding at the header after es, one that stops inside the
\* payload of the last entry, and (of no entry) one whose gzip header is bad.
Streams(es) ==
    { Tgz(es), [Tgz(es) EXCEPT !.end = "err"] }
    \cup (IF es # <<>> /\ es[Len(es)].size > 0
          THEN { [gz |-> TRUE, end |-> "err",
                  ents |-> [es EXCEPT ![Len(es)] = Cut(es[Len(es)])]] }
          ELSE {})
    \cup (IF es = <<>> THEN {BadGzip} ELSE {})

Archives == UNION { Streams(es) : es \in SeqsUpTo(Entries, MaxEntries) }

\* The lists of k streams that hold the entries es between them.
RECURSIVE Lists(_, _)
Lists(es, k) ==
    IF k = 0 THEN (IF es = <<>> THEN { <<>> } ELSE {})
    ELSE UNION { { <<first>> \o rest :
                        first \in Streams(SubSeq(es, 1, i)),
                        rest \in Lists(SubSeq(es, i + 1, Len(es)), k - 1) } :
                 i \in 0..Len(es) }

-----------------------------------------------------------------------------
(* gzip.Reader and tar.Reader over an archive.                             *)

NoReader == [open |-> FALSE, ents |-> <<>>, end |-> "eof", pos |-> 0]

\* gzip.NewReader followed by tar.NewReader.
NewReader(ar) ==
    IF ar.gz
    THEN [err |-> NoErr,
          rd |-> [open |-> TRUE, ents |-> ar.ents, end |-> ar.end, pos |-> 0]]
    ELSE [err |-> Err("gzip"), rd |-> NoReader]

\* (*tar.Reader).Next: skips what is left of the current payload, then
\* decodes the next header.  kind is "hdr", "eof" or "err".
TarNext(r) ==
    IF r.pos > 0 /\ ~Full(r.ents[r.pos])
    THEN [kind |-> "err", rd |-> r, hdr |-> NoHeader]
    ELSE IF r.pos < Len(r.ents)
    THEN [kind |-> "hdr", rd |-> [r EXCEPT !.pos = r.pos + 1],
          hdr |-> Header(r.ents[r.pos + 1])]
    ELSE [kind |-> IF r.end = "eof" THEN "eof" ELSE "err",
          rd |-> r, hdr |-> NoHeader]

\* Reading the current entry's payload to its end (io.Copy, ioutil.ReadAll).
TarReadAll(r) ==
    [data |-> r.ents[r.pos].data,
     err |-> IF Full(r.ents[r.pos]) THEN NoErr ELSE Err("decode")]

-----------------------------------------------------------------------------
(* tar.Writer over a gzip.Writer.  ents are the entries written so far;    *)
(* the last one is in progress until its data reaches its size.  stuck is  *)
(* the writer's sticky error, footer the end marker Close writes.          *)

NoWriter == [open |-> FALSE, ents |-> <<>>, footer |-> FALSE, stuck |-> FALSE]
NewWriter == [open |-> TRUE, ents |-> <<>>, footer |-> FALSE, stuck |-> FALSE]

\* Payload bytes the entry in progress still lacks.
Missing(w) ==
    IF w.ents = <<>> THEN 0
    ELSE w.ents[Len(w.ents)].size - Len(w.ents[Len(w.ents)].data)

\* (*tar.Writer).WriteHeader: fails once the writer is closed or has failed,
\* or when the entry in progress lacks payload; else begins the next entry.
TarWriteHeader(w, h) ==
    IF w.stuck \/ Missing(w) > 0
    THEN [err |-> Err("write"), tw |-> [w EXCEPT !.stuck = TRUE]]
    ELSE [err |-> NoErr,
          tw |-> [w EXCEPT !.ents = Append(w.ents, h @@ [data |-> <<>>])]]

\* (*tar.Writer).Write: appends to the entry in progress up to its size;
\* bytes beyond it are refused (ErrWriteTooLong).
TarWrite(w, bs) ==
    IF w.stuck THEN [err |-> Err("write"), tw |-> w]
    ELSE IF bs = <<>> THEN [err |-> NoErr, tw |-> w]
    ELSE LET fit == Min(Len(bs), Missing(w))
         IN  [err |-> IF fit < Len(bs) THEN Err("write") ELSE NoErr,
              tw |-> IF fit = 0 THEN w
                     ELSE [w EXCEPT !.ents[Len(w.ents)].data =
                                        @ \o SubSeq(bs, 1, fit)]]

\* (*tar.Writer).Close then (*gzip.Writer).Close: the end marker is written
\* unless the writer has failed or the entry in progress lacks payload.
TarClose(w) ==
    [w EXCEPT !.open = FALSE, !.stuck = TRUE,
              !.footer = w.footer \/ (~w.stuck /\ Missing(w) = 0)]

\* The bytes the writer has produced, as the archive a reader would see.
Bytes(w) == [gz |-> TRUE, ents |-> w.ents,
             end |-> IF w.footer THEN "eof" ELSE "err"]

\* A mutant of CopyEntry: the last byte of the payload is not written.
CopyEntryShort(w, r) ==
    LET got == TarReadAll(r)
        put == TarWrite(w, SubSeq(got.data, 1, Len(got.data) - 1))
    IN  [err |-> IF put.err # NoErr THEN put.err ELSE got.err, tw |-> put.tw]

\* io.Copy(tarWriter, tarReader): the current payload goes to the writer;
\* a read error or a write error ends it.
CopyEntry(w, r) ==
    LET got == TarReadAll(r)
        put == TarWrite(w, got.data)
    IN  [err |-> IF put.err # NoErr THEN put.err ELSE got.err, tw |-> put.tw]

-----------------------------------------------------------------------------
(* ReadFileFromGzippedTarball, lines 143-164.                              *)

\* A mutant of ReadLoop: the last entry of that name wins.
RECURSIVE ReadLoopKeep(_, _, _)
ReadLoopKeep(r, path, best) ==
    LET n == TarNext(r)
    IN  IF n.kind = "eof"
        THEN IF best.found THEN [data |-> best.data, err |-> NoErr]
             ELSE [data |-> <<>>, err |-> ErrAt("notfound", path)]
        ELSE IF n.kind = "err" THEN [data |-> <<>>, err |-> Err("decode")]
        ELSE ReadLoopKeep(n.rd, path,
                IF n.hdr.name = path
                THEN [found |-> TRUE, data |-> TarReadAll(n.rd).data]
                ELSE best)

ReadLoopLast(r, path) == ReadLoopKeep(r, path, [found |-> FALSE, data |-> <<>>])

\* A mutant of ReadLoop: running out of entries is reported as a decode error.
RECURSIVE ReadLoopNoNotFound(_, _)
ReadLoopNoNotFound(r, path) ==
    LET n == TarNext(r)
    IN  IF n.kind # "hdr" THEN [data |-> <<>>, err |-> Err("decode")]
        ELSE IF n.hdr.name = path THEN TarReadAll(n.rd)
        ELSE ReadLoopNoNotFound(n.rd, path)

\* The loop of lines 152-163.
RECURSIVE ReadLoop(_, _)
ReadLoop(r, path) ==
    LET n == TarNext(r)
    IN  IF n.kind = "eof" THEN [data |-> <<>>, err |-> ErrAt("notfound", path)]
        ELSE IF n.kind = "err" THEN [data |-> <<>>, err |-> Err("decode")]
        ELSE IF n.hdr.name = path THEN TarReadAll(n.rd)
        ELSE ReadLoop(n.rd, path)

ReadFileFromGzippedTarball(data, path) ==
    LET g == NewReader(data)
    IN  IF g.err # NoErr THEN [data |-> <<>>, err |-> g.err]
        ELSE ReadLoop(g.rd, path)

-----------------------------------------------------------------------------
(* GetFilePathsWithRegex, lines 114-141.                                   *)

FindResult(fs, e, p) == [files |-> fs, err |-> e, panic |-> p]

\* What the loop leaves: the result and the reader where it stopped.
FindEnd(fs, e, p, r) == [res |-> FindResult(fs, e, p), rd |-> r]

\* A mutant of FindLoop: a decode error drops the names collected so far.
RECURSIVE FindLoopDrop(_, _, _)
FindLoopDrop(r, regex, files) ==
    LET n == TarNext(r)
    IN  IF n.kind = "eof" THEN FindEnd(files, NoErr, FALSE, n.rd)
        ELSE IF n.kind = "err" THEN FindEnd(<<>>, Err("decode"), FALSE, n.rd)
        ELSE IF ~Compiles(regex) THEN FindEnd(<<>>, NoErr, TRUE, n.rd)
        ELSE FindLoopDrop(n.rd, regex,
                IF MatchString(regex, n.hdr.name)
                THEN Append(files, n.hdr.name) ELSE files)

\* The loop of lines 127-140.  regexp.MustCompile panics on a pattern that
\* does not compile; it runs once per header, after Next has returned one.
RECURSIVE FindLoop(_, _, _)
FindLoop(r, regex, files) ==
    LET n == TarNext(r)
    IN  IF n.kind = "eof" THEN FindEnd(files, NoErr, FALSE, n.rd)
        ELSE IF n.kind = "err" THEN FindEnd(files, Err("decode"), FALSE, n.rd)
        ELSE IF ~Compiles(regex) THEN FindEnd(<<>>, NoErr, TRUE, n.rd)
        ELSE FindLoop(n.rd, regex,
                IF MatchString(regex, n.hdr.name)
                THEN Append(files, n.hdr.name) ELSE files)

-----------------------------------------------------------------------------
(* The file system.                                                        *)

PD == <<"d">>
PDA == <<"d", "/", "a">>
PDB == <<"d", "/", "b">>
PDS == <<"d", "/", "s">>
PDT == <<"d", "/", "t">>
PO == <<"o">>
POT == <<"o", "/", "t">>
PT == <<"t">>

Paths == { Dot, PD, PDA, PDB, PDS, PDT, PO, POT, PT }

None == [kind |-> "none"]
DirNode == [kind |-> "dir"]
File(c) == [kind |-> "file", data |-> c]
Raw(bs) == [raw |-> bs]

IsRaw(c) == "raw" \in DOMAIN c

\* The node a path names (os.Stat, os.Open resolve the path as spelled).
Lookup(dsk, p) == IF Clean(p) \in Paths THEN dsk[Clean(p)] ELSE None

\* The bytes of a file read as a gzip stream.
AsArchive(c) == IF IsRaw(c) THEN BadGzip ELSE c

EmptyDisk == [p \in Paths |-> IF p = Dot THEN DirNode ELSE None]

\* The disks a call may find: a lone archive file t, or a directory d of
\* files a, b, an optional subdirectory s and an optional old file t.
ArchiveDisks ==
    { [EmptyDisk EXCEPT ![PT] = File(ar)] : ar \in Archives }
BuildDisks ==
    { [EmptyDisk EXCEPT ![PD] = DirNode, ![PDA] = a, ![PDB] = b,
                        ![PDS] = s, ![PDT] = t] :
        a \in { None, File(Raw(<<>>)), File(Raw(<<1>>)) },
        b \in { None, File(Raw(<<2>>)) },
        s \in { None, DirNode },
        t \in { None, File(Raw(<<3>>)) } }

-----------------------------------------------------------------------------
(* The state machine: one call at a time, from "idle" to "done".           *)

NoDst == [open |-> FALSE, path |-> <<>>, linked |-> FALSE]

\* The state before a call, on one of the disks D.
InitOn(D) ==
    /\ pc = "idle"
    /\ call = [op |-> "none"]
    /\ disk \in D
    /\ readers = <<>>
    /\ rd = NoReader
    /\ tw = NoWriter
    /\ dst = NoDst
    /\ hdr = NoHeader
    /\ todo = <<>>
    /\ log = <<>>
    /\ old = disk
    /\ ret = [op |-> "none"]

Targets == NameSet \cup { <<"b">>, <<"b", "/", "b">> }

\* ReadFileFromGzippedTarball as one step: the deferred Close of line 149
\* has run when it returns.
Read(data, path) ==
    /\ pc = "idle"
    /\ pc' = "done"
    /\ call' = [op |-> "Read", data |-> data, path |-> path]
    /\ ret' = ReadFileFromGzippedTarball(data, path)
    /\ UNCHANGED <<disk, readers, rd, tw, dst, hdr, todo, log, old>>

Patterns ==
    { <<>>, <<"a">>, <<"/", "a">>, <<"b", ".">>, <<"(">>, <<"b", "(">> }

\* GetFilePathsWithRegex as one step.  Neither the file nor the gzip reader
\* is closed on any path.
Find(tarFilePath, regex) ==
    /\ pc = "idle"
    /\ pc' = "done"
    /\ call' = [op |-> "Find", tarFilePath |-> tarFilePath, regex |-> regex]
    /\ LET node == Lookup(disk, tarFilePath)
       IN  IF node.kind = "none"
           THEN /\ ret' = FindResult(<<>>, Err("open"), FALSE)
                /\ UNCHANGED <<rd, dst>>
           ELSE LET g == NewReader(IF node.kind = "file"
                                   THEN AsArchive(node.data) ELSE BadGzip)
                IN  /\ dst' = [open |-> TRUE, path |-> Clean(tarFilePath), linked |-> TRUE]
                    /\ IF g.err # NoErr
                       THEN /\ ret' = FindResult(<<>>, g.err, FALSE)
                            /\ rd' = g.rd
                       ELSE LET end == FindLoop(g.rd, regex, <<>>)
                            IN  /\ ret' = end.res
                                /\ rd' = end.rd
    /\ UNCHANGED <<disk, readers, tw, hdr, todo, log, old>>

FindPaths == { PT, <<".", "/", "t">>, PDA }

NextRead ==
    pc = "idle" /\ \E data \in Archives, path \in Targets : Read(data, path)
NextFind ==
    pc = "idle" /\ \E p \in FindPaths, re \in Patterns : Find(p, re)

SpecRead == InitOn({EmptyDisk}) /\ [][NextRead]_vars
SpecFind == InitOn(ArchiveDisks \cup BuildDisks) /\ [][NextFind]_vars

-----------------------------------------------------------------------------
(* CombineTarballs, lines 16-56, one step per statement of its loops.      *)

\* A mutant of CombineReturn: what the buffer holds is returned with the error.
CombineReturnBuffer(out, e) ==
    /\ pc' = "done"
    /\ ret' = [out |-> Bytes(tw), err |-> e]

\* Lines 49 and 55: the bytes (nil with an error) and the error.
CombineReturn(out, e) ==
    /\ pc' = "done"
    /\ ret' = [out |-> out, err |-> e]

Reverse(q) == [i \in 1..Len(q) |-> q[Len(q) + 1 - i]]

\* A mutant of CombineStart: the sources are taken last to first.
CombineStartReversed(rs) ==
    /\ pc = "idle"
    /\ pc' = "source"
    /\ call' = [op |-> "Combine", readers |-> rs]
    /\ readers' = Reverse(rs)
    /\ tw' = NewWriter
    /\ UNCHANGED <<disk, rd, dst, hdr, todo, log, old, ret>>

\* Lines 17-19: the buffer and the writers over it.
CombineStart(rs) ==
    /\ pc = "idle"
    /\ pc' = "source"
    /\ call' = [op |-> "Combine", readers |-> rs]
    /\ readers' = rs
    /\ tw' = NewWriter
    /\ UNCHANGED <<disk, rd, dst, hdr, todo, log, old, ret>>

\* A mutant of CombineOpen: each source gets a writer of its own.
CombineOpenFreshWriter ==
    /\ pc = "source" /\ call.op = "Combine"
    /\ readers # <<>>
    /\ readers' = Tail(readers)
    /\ tw' = NewWriter
    /\ LET g == NewReader(Head(readers))
       IN  IF g.err # NoErr
           THEN CombineReturn(NoBytes, g.err) /\ UNCHANGED rd
           ELSE pc' = "next" /\ rd' = g.rd /\ UNCHANGED ret
    /\ UNCHANGED <<call, disk, dst, hdr, todo, log, old>>

\* Lines 21-29 and 48-50: the next source is opened, or its gzip header is
\* bad and the call returns nil and the error.
CombineOpen ==
    /\ pc = "source" /\ call.op = "Combine"
    /\ readers # <<>>
    /\ readers' = Tail(readers)
    /\ LET g == NewReader(Head(readers))
       IN  IF g.err # NoErr
           THEN CombineReturn(NoBytes, g.err) /\ UNCHANGED rd
           ELSE pc' = "next" /\ rd' = g.rd /\ UNCHANGED ret
    /\ UNCHANGED <<call, disk, tw, dst, hdr, todo, log, old>>

\* Lines 31-37, 27 and 48-50: the next header, the end of this source (its
\* gzip reader is closed on the way out), or a decode error.
CombineNext ==
    /\ pc = "next" /\ call.op = "Combine"
    /\ LET n == TarNext(rd)
       IN  \/ /\ n.kind = "hdr"
              /\ pc' = "header" /\ rd' = n.rd /\ hdr' = n.hdr
              /\ UNCHANGED ret
           \/ /\ n.kind = "eof"
              /\ pc' = "source" /\ rd' = [n.rd EXCEPT !.open = FALSE]
              /\ UNCHANGED <<hdr, ret>>
           \/ /\ n.kind = "err"
              /\ rd' = [n.rd EXCEPT !.open = FALSE]
              /\ CombineReturn(NoBytes, Err("decode"))
              /\ UNCHANGED hdr
    /\ UNCHANGED <<call, disk, readers, tw, dst, todo, log, old>>

\* Lines 39-41.
CombineWriteHeader ==
    /\ pc = "header" /\ call.op = "Combine"
    /\ LET w == TarWriteHeader(tw, hdr)
       IN  /\ tw' = w.tw
           /\ IF w.err # NoErr
              THEN /\ rd' = [rd EXCEPT !.open = FALSE]
                   /\ CombineReturn(NoBytes, w.err)
              ELSE pc' = "copy" /\ UNCHANGED <<rd, ret>>
    /\ UNCHANGED <<call, disk, readers, dst, hdr, todo, log, old>>

\* Lines 43-45.
CombineCopy ==
    /\ pc = "copy" /\ call.op = "Combine"
    /\ LET c == CopyEntry(tw, rd)
       IN  /\ tw' = c.tw
           /\ IF c.err # NoErr
              THEN /\ rd' = [rd EXCEPT !.open = FALSE]
                   /\ CombineReturn(NoBytes, c.err)
              ELSE pc' = "next" /\ UNCHANGED <<rd, ret>>
    /\ UNCHANGED <<call, disk, readers, dst, hdr, todo, log, old>>

\* A mutant of CombineFinish: the buffer's bytes are returned with the
\* writers still open.
CombineFinishUnclosed ==
    /\ pc = "source" /\ call.op = "Combine"
    /\ readers = <<>>
    /\ CombineReturn(Bytes(tw), NoErr)
    /\ UNCHANGED <<call, disk, readers, rd, tw, dst, hdr, todo, log, old>>

\* Lines 53-55: every source is done; the writers are closed and the
\* buffer's bytes returned.
CombineFinish ==
    /\ pc = "source" /\ call.op = "Combine"
    /\ readers = <<>>
    /\ tw' = TarClose(tw)
    /\ CombineReturn(Bytes(TarClose(tw)), NoErr)
    /\ UNCHANGED <<call, disk, readers, rd, dst, hdr, todo, log, old>>

NextCombine ==
    \/ /\ pc = "idle"
       /\ \E es \in SeqsUpTo(Entries, MaxEntries), k \in 0..MaxSources :
            \E rs \in Lists(es, k) : CombineStart(rs)
    \/ CombineOpen
    \/ CombineNext
    \/ CombineWriteHeader
    \/ CombineCopy
    \/ CombineFinish

SpecCombine == InitOn({EmptyDisk}) /\ [][NextCombine]_vars

-----------------------------------------------------------------------------
(* WriteTarballToTarWriter, lines 166-195, one step per statement.         *)

TranscodeReturn(e) ==
    /\ pc' = "done"
    /\ ret' = [err |-> e]

\* The writers a caller may hand over: fresh, after a whole entry, in the
\* middle of an entry, and closed.
OldEntry == Entry(<<"o">>, <<1>>)
CallerWriters ==
    { NewWriter,
      [NewWriter EXCEPT !.ents = <<OldEntry>>],
      [NewWriter EXCEPT !.ents = <<Cut(OldEntry)>>],
      TarClose(NewWriter) }

Prefixes == { <<>>, <<"b", "/">>, <<"b", "/", "a">>, <<"a">> }

\* A mutant of TranscodeStart: the entries go to a writer of the call's own.
TranscodeStartFresh(data, w, prefix) ==
    /\ pc = "idle"
    /\ call' = [op |-> "Transcode", data |-> data, tw |-> w,
                pathPrefixToTrim |-> prefix]
    /\ tw' = NewWriter
    /\ LET g == NewReader(data)
       IN  IF g.err # NoErr
           THEN TranscodeReturn(g.err) /\ UNCHANGED rd
           ELSE pc' = "next" /\ rd' = g.rd /\ UNCHANGED ret
    /\ UNCHANGED <<disk, readers, dst, hdr, todo, log, old>>

\* Lines 167-173.
TranscodeStart(data, w, prefix) ==
    /\ pc = "idle"
    /\ call' = [op |-> "Transcode", data |-> data, tw |-> w,
                pathPrefixToTrim |-> prefix]
    /\ tw' = w
    /\ LET g == NewReader(data)
       IN  IF g.err # NoErr
           THEN TranscodeReturn(g.err) /\ UNCHANGED rd
           ELSE pc' = "next" /\ rd' = g.rd /\ UNCHANGED ret
    /\ UNCHANGED <<disk, readers, dst, hdr, todo, log, old>>

\* Lines 175-185 and 171: the next header with its name trimmed, the end of
\* the stream, or a decode error; the gzip reader is closed on the way out.
TranscodeNext ==
    /\ pc = "next" /\ call.op = "Transcode"
    /\ LET n == TarNext(rd)
       IN  \/ /\ n.kind = "hdr"
              /\ pc' = "header" /\ rd' = n.rd
              /\ hdr' = IF call.pathPrefixToTrim # <<>>
                        THEN [n.hdr EXCEPT !.name =
                                TrimPrefix(n.hdr.name, call.pathPrefixToTrim)]
                        ELSE n.hdr
              /\ UNCHANGED ret
           \/ /\ n.kind = "eof"
              /\ rd' = [n.rd EXCEPT !.open = FALSE]
              /\ TranscodeReturn(NoErr)
              /\ UNCHANGED hdr
           \/ /\ n.kind = "err"
              /\ rd' = [n.rd EXCEPT !.open = FALSE]
              /\ TranscodeReturn(Err("decode"))
              /\ UNCHANGED hdr
    /\ UNCHANGED <<call, disk, readers, tw, dst, todo, log, old>>

\* A mutant of TranscodeWriteHeader: the next header is requested with the
\* payload neither read nor written.
TranscodeWriteHeaderOnly ==
    /\ pc = "header" /\ call.op = "Transcode"
    /\ LET w == TarWriteHeader(tw, hdr)
       IN  /\ tw' = w.tw
           /\ IF w.err # NoErr
              THEN /\ rd' = [rd EXCEPT !.open = FALSE]
                   /\ TranscodeReturn(w.err)
              ELSE pc' = "next" /\ UNCHANGED <<rd, ret>>
    /\ UNCHANGED <<call, disk, readers, dst, hdr, todo, log, old>>

\* Lines 187-189.
TranscodeWriteHeader ==
    /\ pc = "header" /\ call.op = "Transcode"
    /\ LET w == TarWriteHeader(tw, hdr)
       IN  /\ tw' = w.tw
           /\ IF w.err # NoErr
              THEN /\ rd' = [rd EXCEPT !.open = FALSE]
                   /\ TranscodeReturn(w.err)
              ELSE pc' = "copy" /\ UNCHANGED <<rd, ret>>
    /\ UNCHANGED <<call, disk, readers, dst, hdr, todo, log, old>>

\* Lines 191-193.
TranscodeCopy ==
    /\ pc = "copy" /\ call.op = "Transcode"
    /\ LET c == CopyEntry(tw, rd)
       IN  /\ tw' = c.tw
           /\ IF c.err # NoErr
              THEN /\ rd' = [rd EXCEPT !.open = FALSE]
                   /\ TranscodeReturn(c.err)
              ELSE pc' = "next" /\ UNCHANGED <<rd, ret>>
    /\ UNCHANGED <<call, disk, readers, dst, hdr, todo, log, old>>

NextTranscode ==
    \/ pc = "idle" /\ \E data \in Archives, w \in CallerWriters,
                            prefix \in Prefixes : TranscodeStart(data, w, prefix)
    \/ TranscodeNext
    \/ TranscodeWriteHeader
    \/ TranscodeCopy

SpecTranscode == InitOn({EmptyDisk}) /\ [][NextTranscode]_vars

\* The two operations that copy entries from a reader to a writer.
NextStream == NextCombine \/ NextTranscode
SpecStream == InitOn({EmptyDisk}) /\ [][NextStream]_vars

-----------------------------------------------------------------------------
(* A caller that transcodes two archives into one fresh writer with the    *)
(* empty prefix, closes the writer, and then combines the same two         *)
(* archives.  todo holds the two archives; log collects what the caller    *)
(* saw: the error and the writer after each transcode, then the bytes of   *)
(* the closed writer.                                                      *)

InitPair ==
    /\ pc = "idle"
    /\ call = [op |-> "none"]
    /\ disk = EmptyDisk
    /\ readers = <<>>
    /\ rd = NoReader
    /\ tw = NoWriter
    /\ dst = NoDst
    /\ hdr = NoHeader
    /\ todo \in UNION { Lists(es, 2) : es \in SeqsUpTo(Entries, MaxEntries) }
    /\ log = <<>>
    /\ old = disk
    /\ ret = [op |-> "none"]

\* tar.NewWriter by the caller, then WriteTarballToTarWriter(A, w, "").
PairFirst ==
    /\ pc = "idle" /\ log = <<>>
    /\ TranscodeStart(todo[1], NewWriter, <<>>)

\* A transcode has returned to the caller.
PairReturn ==
    /\ pc = "done" /\ call.op = "Transcode"
    /\ pc' = "idle"
    /\ log' = Append(log, [err |-> ret.err, tw |-> tw])
    /\ UNCHANGED <<call, disk, readers, rd, tw, dst, hdr, todo, old, ret>>

\* WriteTarballToTarWriter(B, w, "") on the same writer.
PairSecond ==
    /\ pc = "idle" /\ Len(log) = 1
    /\ TranscodeStart(todo[2], tw, <<>>)

\* The caller closes its writer and keeps the bytes.
PairClose ==
    /\ pc = "idle" /\ Len(log) = 2
    /\ tw' = TarClose(tw)
    /\ log' = Append(log, [out |-> Bytes(TarClose(tw))])
    /\ UNCHANGED <<pc, call, disk, readers, rd, dst, hdr, todo, old, ret>>

\* CombineTarballs([A, B]).
PairCombine ==
    /\ pc = "idle" /\ Len(log) = 3
    /\ CombineStart(todo)

NextPair ==
    \/ PairFirst
    \/ PairReturn
    \/ PairSecond
    \/ PairClose
    \/ PairCombine
    \/ TranscodeNext
    \/ TranscodeWriteHeader
    \/ TranscodeCopy
    \/ CombineOpen
    \/ CombineNext
    \/ CombineWriteHeader
    \/ CombineCopy
    \/ CombineFinish

SpecPair == InitPair /\ [][NextPair]_vars

-----------------------------------------------------------------------------
(* CreateGzippedTarball, lines 61-111, and addFileToTarWriter, 197-227.    *)

GzipHeader == <<31>>

\* The bytes a read of the file yields; a gzip stream reads as its header
\* and compressed data.
FileBytes(c) == IF IsRaw(c) THEN c.raw ELSE GzipHeader \o <<8>>

\* The names of the direct children of a directory.
Children(dsk, d) ==
    { Base(p) : p \in { q \in Paths \ {Dot} :
                            Dir(q) = Clean(d) /\ dsk[q].kind # "none" } }

\* filepath.Glob(path + "/*"): the children of path in sort.Strings order,
\* each joined to path as spelled and cleaned; nothing when path is no
\* directory.
Glob(dsk, path) ==
    IF Lookup(dsk, path).kind # "dir" THEN <<>>
    ELSE LET names == SortStrings(Children(dsk, path))
         IN  [i \in 1..Len(names) |-> Join(path, names[i])]

\* os.MkdirAll of a directory of the model's one-level tree.
MkdirAll(dsk, d) ==
    IF Lookup(dsk, d).kind = "file" \/ Clean(d) \notin Paths
    THEN [ok |-> FALSE, disk |-> dsk]
    ELSE [ok |-> TRUE, disk |-> [dsk EXCEPT ![Clean(d)] = DirNode]]

\* What the destination file holds on disk while the writers are open: the
\* gzip header goes out with the first write, compressed data when the
\* compressor fills a block.
Started(dsk, d) ==
    IF d.linked /\ dsk[d.path] = File(Raw(<<>>))
    THEN [dsk EXCEPT ![d.path] = File(Raw(GzipHeader))]
    ELSE dsk

\* A mutant of addFileToTarWriter: the entry is named by the file's base name.
AddFileToTarWriterBase(filePath, dirPath, w, atStat, atCopy) ==
    LET h == [name |-> Base(Clean(filePath)),
              size |-> IF atStat.kind = "dir" THEN 1
                       ELSE Len(FileBytes(atStat.data)),
              mode |-> IF atStat.kind = "dir" THEN "dir" ELSE "reg"]
        wh == TarWriteHeader(w, h)
        cp == TarWrite(wh.tw, FileBytes(atCopy.data))
    IN  IF wh.err # NoErr THEN [err |-> wh.err, tw |-> wh.tw]
        ELSE IF atCopy.kind = "dir" THEN [err |-> Err("read"), tw |-> wh.tw]
        ELSE cp

\* addFileToTarWriter, lines 197-227: atStat is the file as file.Stat finds
\* it, atCopy the file as io.Copy reads it.
AddFileToTarWriter(filePath, dirPath, w, atStat, atCopy) ==
    LET rel == Rel(dirPath, filePath)
        h == [name |-> rel.path,
              size |-> IF atStat.kind = "dir" THEN 1
                       ELSE Len(FileBytes(atStat.data)),
              mode |-> IF atStat.kind = "dir" THEN "dir" ELSE "reg"]
        wh == TarWriteHeader(w, h)
        cp == TarWrite(wh.tw, FileBytes(atCopy.data))
    IN  IF atStat.kind = "none" THEN [err |-> Err("open"), tw |-> w]
        ELSE IF ~rel.ok THEN [err |-> Err("rel"), tw |-> w]
        ELSE IF wh.err # NoErr THEN [err |-> wh.err, tw |-> wh.tw]
        ELSE IF atCopy.kind = "dir" THEN [err |-> Err("read"), tw |-> wh.tw]
        ELSE cp

\* What the closes leave on disk: the bytes written, if the file is still
\* linked at its path.
Closed(dsk, d, w) ==
    IF d.linked THEN [dsk EXCEPT ![d.path] = File(Bytes(TarClose(w)))] ELSE dsk

\* The deferred closes of lines 83, 80 and 77, run in that order on return:
\* the tar writer, the gzip writer, the file.
Deferred(dsk, w) ==
    /\ tw' = TarClose(w)
    /\ dst' = [dst EXCEPT !.open = FALSE]
    /\ disk' = Closed(dsk, dst, w)

CreateReturn(e) ==
    /\ pc' = "done"
    /\ ret' = [err |-> e]

\* Lines 62-95: stat of the path, the destination's directory, the
\* destination file and its writers, the list of file paths.
CreateStart(tarFilePath, path, removeFiles) ==
    /\ pc = "idle"
    /\ call' = [op |-> "Create", tarFilePath |-> tarFilePath, path |-> path,
                removeFiles |-> removeFiles]
    /\ LET info == Lookup(disk, path)
           mk == MkdirAll(disk, Dir(tarFilePath))
       IN  IF info.kind = "none"
           THEN /\ CreateReturn(ErrAt("stat", path))
                /\ UNCHANGED <<disk, tw, dst, todo>>
           ELSE IF ~mk.ok
           THEN /\ CreateReturn(ErrAt("mkdir", tarFilePath))
                /\ UNCHANGED <<disk, tw, dst, todo>>
           ELSE IF Lookup(mk.disk, tarFilePath).kind = "dir"
                    \/ Clean(tarFilePath) \notin Paths
           THEN /\ CreateReturn(ErrAt("create", tarFilePath))
                /\ disk' = mk.disk
                /\ UNCHANGED <<tw, dst, todo>>
           ELSE /\ disk' = [mk.disk EXCEPT ![Clean(tarFilePath)] = File(Raw(<<>>))]
                /\ dst' = [open |-> TRUE, path |-> Clean(tarFilePath),
                           linked |-> TRUE]
                /\ tw' = NewWriter
                /\ todo' = IF info.kind # "dir" THEN <<path>>
                           ELSE Glob(disk', path)
                /\ pc' = "files"
                /\ UNCHANGED ret
    /\ UNCHANGED <<readers, rd, hdr, log, old>>

LogEntry(f, did, bs, rm) == [path |-> f, did |-> did, data |-> bs, rm |-> rm]

\* A mutant of Remove: nothing is unlinked.
RemoveNothing(dsk, f, ok) == dsk

\* Line 107: os.Remove unlinks the path or fails; its result is dropped.
Remove(dsk, f, ok) == IF ok THEN [dsk EXCEPT ![Clean(f)] = None] ELSE dsk

\* Lines 96-99: the file path spelled as the destination is passed over.
CreateSkip ==
    /\ pc = "files" /\ todo # <<>>
    /\ Head(todo) = call.tarFilePath
    /\ todo' = Tail(todo)
    /\ log' = Append(log, LogEntry(Head(todo), "skip", <<>>, "none"))
    /\ UNCHANGED <<pc, call, disk, readers, rd, tw, dst, hdr, old, ret>>

\* A mutant of CreateAdd: a failed os.Remove ends the build with an error.
CreateAddReportRemove(grow, rm) ==
    /\ pc = "files" /\ todo # <<>>
    /\ Head(todo) # call.tarFilePath
    /\ LET f == Head(todo)
           self == dst.linked /\ Clean(f) = dst.path
           atStat == Lookup(disk, f)
           began == Started(disk, dst)
           during == IF dst.linked
                     THEN [began EXCEPT ![dst.path] =
                            File(Raw(FileBytes(began[dst.path].data) \o grow))]
                     ELSE began
           atCopy == Lookup(during, f)
           add == AddFileToTarWriter(f, Dir(call.path), tw, atStat, atCopy)
       IN  /\ grow # <<>> => self
           /\ IF add.err # NoErr \/ (call.removeFiles /\ ~rm)
              THEN /\ rm = FALSE
                   /\ CreateReturn(IF add.err # NoErr THEN ErrAt("add", f)
                                   ELSE ErrAt("remove", f))
                   /\ Deferred(during, add.tw)
                   /\ UNCHANGED <<todo, log>>
              ELSE /\ tw' = add.tw
                   /\ todo' = Tail(todo)
                   /\ IF call.removeFiles
                      THEN /\ disk' = Remove(during, f, rm)
                           /\ dst' = [dst EXCEPT !.linked = @ /\ ~(rm /\ self)]
                           /\ log' = Append(log,
                                LogEntry(f, "add", FileBytes(atCopy.data),
                                         IF rm THEN "ok" ELSE "failed"))
                      ELSE /\ rm = FALSE
                           /\ disk' = during
                           /\ log' = Append(log,
                                LogEntry(f, "add", FileBytes(atCopy.data), "none"))
                           /\ UNCHANGED dst
                   /\ UNCHANGED <<pc, ret>>
    /\ UNCHANGED <<call, readers, rd, hdr, old>>

\* Lines 96-109 for a path that is not passed over: the file is added and,
\* with removeFiles, removed.  rm is whether os.Remove succeeds; grow is what
\* the compressor flushes to the destination while the file is copied, which
\* only a copy of the destination itself can see.  A failed add returns
\* through the deferred closes.
CreateAdd(grow, rm) ==
    /\ pc = "files" /\ todo # <<>>
    /\ Head(todo) # call.tarFilePath
    /\ LET f == Head(todo)
           self == dst.linked /\ Clean(f) = dst.path
           atStat == Lookup(disk, f)
           began == Started(disk, dst)
           during == IF dst.linked
                     THEN [began EXCEPT ![dst.path] =
                            File(Raw(FileBytes(began[dst.path].data) \o grow))]
                     ELSE began
           atCopy == Lookup(during, f)
           add == AddFileToTarWriter(f, Dir(call.path), tw, atStat, atCopy)
       IN  /\ grow # <<>> => self
           /\ IF add.err # NoErr
              THEN /\ rm = FALSE
                   /\ CreateReturn(ErrAt("add", f))
                   /\ Deferred(during, add.tw)
                   /\ UNCHANGED <<todo, log>>
              ELSE /\ tw' = add.tw
                   /\ todo' = Tail(todo)
                   /\ IF call.removeFiles
                      THEN /\ disk' = Remove(during, f, rm)
                           /\ dst' = [dst EXCEPT !.linked = @ /\ ~(rm /\ self)]
                           /\ log' = Append(log,
                                LogEntry(f, "add", FileBytes(atCopy.data),
                                         IF rm THEN "ok" ELSE "failed"))
                      ELSE /\ rm = FALSE
                           /\ disk' = during
                           /\ log' = Append(log,
                                LogEntry(f, "add", FileBytes(atCopy.data), "none"))
                           /\ UNCHANGED dst
                   /\ UNCHANGED <<pc, ret>>
    /\ UNCHANGED <<call, readers, rd, hdr, old>>

\* Line 110 and the deferred closes: every file path is done.
CreateFinish ==
    /\ pc = "files" /\ todo = <<>>
    /\ CreateReturn(NoErr)
    /\ Deferred(disk, tw)
    /\ UNCHANGED <<call, readers, rd, hdr, todo, log, old>>

TarPaths == { PDT, <<".", "/", "d", "/", "t">>, POT }
SrcPaths == { PD, <<".", "/", "d">>, <<"d", "/">>, PDA }

NextCreate ==
    \/ /\ pc = "idle"
       /\ \E t \in TarPaths, p \in SrcPaths, r \in BOOLEAN : CreateStart(t, p, r)
    \/ CreateSkip
    \/ \E grow \in { <<>>, <<8>> }, rm \in BOOLEAN : CreateAdd(grow, rm)
    \/ CreateFinish

SpecCreate == InitOn(BuildDisks) /\ [][NextCreate]_vars

-----------------------------------------------------------------------------
(* Properties of ReadFileFromGzippedTarball.                               *)

ReadDone == pc = "done" /\ call.op = "Read"

\* The position of the first entry of that name, 0 when there is none.
FirstNamed(es, n) ==
    IF \E i \in 1..Len(es) : es[i].name = n
    THEN CHOOSE i \in 1..Len(es) :
            es[i].name = n /\ \A j \in 1..(i - 1) : es[j].name # n
    ELSE 0

\* C4: the extractor returns the whole payload of the first entry whose name
\* equals the target exactly, whatever follows that entry in the stream
\* (later entries of the same name, or a stream that stops decoding later);
\* and a payload returned without error is that of an entry named exactly
\* the target.
C4_FirstExactMatch ==
    ReadDone /\ call.data.gz =>
        LET es == call.data.ents
            i == FirstNamed(es, call.path)
        IN  /\ (i > 0 /\ Full(es[i])) =>
                    ret = [data |-> es[i].data, err |-> NoErr]
            /\ ret.err = NoErr => i > 0 /\ ret.data = es[i].data

\* A later entry of the same name holds other bytes, and the first is returned.
C4_Witness ==
    /\ ReadDone
    /\ Len(call.data.ents) = 2
    /\ call.data.ents[1].name = call.path
    /\ call.data.ents[2].name = call.path
    /\ call.data.ents[1].data # call.data.ents[2].data
    /\ ret.err = NoErr
    /\ ret.data = call.data.ents[1].data

\* C5: when no entry is named exactly the target, a stream that decodes to
\* its end (also one of zero entries) yields no payload and a not-found
\* error naming the requested path, and a stream that fails to decode yields
\* the decode error and not the not-found error.
C5_NotFoundOrDecodeError ==
    ReadDone /\ FirstNamed(call.data.ents, call.path) = 0 =>
        /\ ret.data = <<>>
        /\ Valid(call.data) => ret.err = ErrAt("notfound", call.path)
        /\ ~call.data.gz => ret.err = Err("gzip")
        /\ (call.data.gz /\ ~Valid(call.data)) => ret.err = Err("decode")

\* Both cases happen: not found in an archive of zero entries and in one whose
\* entries have other names (one of them an extension of the target).
C5_Witness ==
    /\ ReadDone
    /\ Valid(call.data)
    /\ ret.err = ErrAt("notfound", call.path)
    /\ \/ call.data.ents = <<>>
       \/ \E i \in 1..Len(call.data.ents) :
            HasPrefix(call.data.ents[i].name, call.path)

-----------------------------------------------------------------------------
(* Properties of GetFilePathsWithRegex.                                    *)

FindDone == pc = "done" /\ call.op = "Find"

\* The archive the finder was pointed at, when the path names a gzip stream.
FindOnArchive ==
    /\ FindDone
    /\ Lookup(disk, call.tarFilePath).kind = "file"
    /\ AsArchive(Lookup(disk, call.tarFilePath).data).gz

FoundArchive == AsArchive(Lookup(disk, call.tarFilePath).data)

\* The pattern matches a substring of the name.
MatchesAnywhere(re, s) ==
    \E skip \in 0..(Len(s) - Len(re)) :
        \A k \in 1..Len(re) : re[k] \in {".", s[skip + k]}

RECURSIVE NamesMatching(_, _)
NamesMatching(es, re) ==
    IF es = <<>> THEN <<>>
    ELSE (IF MatchesAnywhere(re, es[1].name) THEN <<es[1].name>> ELSE <<>>)
            \o NamesMatching(Tail(es), re)

\* C6 as stated: on every archive, also one of zero entries, a malformed
\* pattern makes the finder return a pattern error to its caller, and no
\* header of the stream has been requested by then.
C6_PatternErrorBeforeReading ==
    FindOnArchive /\ ~Compiles(call.regex) =>
        /\ ~ret.panic
        /\ ret.err.kind = "pattern"
        /\ rd.pos = 0

\* C7: on a valid archive and a valid pattern the finder returns, without
\* error, the names of the entries whose name matches the pattern anywhere,
\* in stream order, one element per matching entry.
C7_MatchingNamesInOrder ==
    FindOnArchive /\ Valid(FoundArchive) /\ Compiles(call.regex) =>
        ret = FindResult(NamesMatching(FoundArchive.ents, call.regex),
                         NoErr, FALSE)

\* Two entries of one name both match in the middle of the name.
C7_Witness ==
    /\ FindOnArchive
    /\ Valid(FoundArchive)
    /\ call.regex = <<"/", "a">>
    /\ ret.files = << <<"b", "/", "a">>, <<"b", "/", "a">> >>
    /\ ret.err = NoErr

\* C8: on a valid pattern, when the k-th request for a header fails to decode,
\* the finder returns the decode error together with the matching names among
\* the k-1 headers it was given, in stream order.
C8_PartialNamesWithError ==
    (FindOnArchive /\ ~Valid(FoundArchive) /\ Compiles(call.regex)) =>
        ret = FindResult(NamesMatching(FoundArchive.ents, call.regex),
                         Err("decode"), FALSE)

\* A decode error comes back with a name collected before it.
C8_Witness ==
    /\ FindOnArchive
    /\ ~Valid(FoundArchive)
    /\ Compiles(call.regex)
    /\ ret.err = Err("decode")
    /\ ret.files # <<>>

-----------------------------------------------------------------------------
(* Properties of CombineTarballs.                                          *)

CombineDone == pc = "done" /\ call.op = "Combine"

AllValid(rs) == \A i \in 1..Len(rs) : Valid(rs[i])

RECURSIVE EntriesBefore(_, _)
EntriesBefore(rs, i) ==
    IF i <= 1 THEN 0 ELSE EntriesBefore(rs, i - 1) + Len(rs[i - 1].ents)

\* C1: on valid inputs the combine succeeds, and entry j of source i is
\* entry number (entries of sources 1..i-1) + j of the output, header and
\* payload unchanged; the output has as many entries as the inputs together,
\* equal names included, and ends with the end marker.
C1_OutputIsConcatenation ==
    CombineDone /\ AllValid(call.readers) =>
        /\ ret.err = NoErr
        /\ ret.out.gz /\ ret.out.end = "eof"
        /\ Len(ret.out.ents) = EntriesBefore(call.readers, Len(call.readers) + 1)
        /\ \A i \in 1..Len(call.readers) :
            \A j \in 1..Len(call.readers[i].ents) :
                ret.out.ents[EntriesBefore(call.readers, i) + j]
                    = call.readers[i].ents[j]

\* Two sources with entries, the second repeating a name of the first.
C1_Witness ==
    /\ CombineDone
    /\ Len(call.readers) = 2
    /\ Len(call.readers[1].ents) = 2
    /\ Len(call.readers[2].ents) = 1
    /\ call.readers[2].ents[1].name = call.readers[1].ents[1].name
    /\ call.readers[2].ents[1].data # call.readers[1].ents[1].data
    /\ ret.err = NoErr
    /\ Len(ret.out.ents) = 3

Names(ar) == { ar.ents[i].name : i \in 1..Len(ar.ents) }

CombinedTwo ==
    /\ CombineDone
    /\ Len(call.readers) = 2
    /\ AllValid(call.readers)
    /\ ret.err = NoErr

\* C2 as stated: extracting from combine([A, B]) a name present in A gives
\* what extracting it from A gives, and a name present in B gives what
\* extracting it from B gives.
C2_ExtractFromEitherInput ==
    CombinedTwo =>
        \A n \in NameSet :
            /\ n \in Names(call.readers[1]) =>
                ReadFileFromGzippedTarball(ret.out, n)
                    = ReadFileFromGzippedTarball(call.readers[1], n)
            /\ n \in Names(call.readers[2]) =>
                ReadFileFromGzippedTarball(ret.out, n)
                    = ReadFileFromGzippedTarball(call.readers[2], n)

\* C2 amended: a name present in A extracts from combine([A, B]) as from A;
\* a name present in B and absent from A extracts as from B.
C2_ExtractFirstSourceWins ==
    CombinedTwo =>
        \A n \in NameSet :
            /\ n \in Names(call.readers[1]) =>
                ReadFileFromGzippedTarball(ret.out, n)
                    = ReadFileFromGzippedTarball(call.readers[1], n)
            /\ (n \in Names(call.readers[2]) /\ n \notin Names(call.readers[1])) =>
                ReadFileFromGzippedTarball(ret.out, n)
                    = ReadFileFromGzippedTarball(call.readers[2], n)

\* A name is in both inputs with different bytes and extracts as from A;
\* another name is in B alone and extracts as from B.
C2_Witness ==
    /\ CombinedTwo
    /\ \E n \in Names(call.readers[1]) \cap Names(call.readers[2]) :
        /\ ReadFileFromGzippedTarball(call.readers[1], n)
            # ReadFileFromGzippedTarball(call.readers[2], n)
        /\ ReadFileFromGzippedTarball(ret.out, n)
            = ReadFileFromGzippedTarball(call.readers[1], n)
    /\ \E n \in Names(call.readers[2]) \ Names(call.readers[1]) :
        /\ ReadFileFromGzippedTarball(ret.out, n).err = NoErr
        /\ ReadFileFromGzippedTarball(ret.out, n)
            = ReadFileFromGzippedTarball(call.readers[2], n)

\* The first source that does not decode to its end.
FirstBad(rs) ==
    CHOOSE i \in 1..Len(rs) :
        ~Valid(rs[i]) /\ \A j \in 1..(i - 1) : Valid(rs[j])

\* The error a reader of the stream ends with.
ErrorOf(ar) == IF ar.gz THEN Err("decode") ELSE Err("gzip")

\* C11: when a source fails to decode or copy, the combine returns the
\* error of the first such source and nil bytes, whatever the writer already
\* holds of the sources before it, and the sources after it are left unread.
C11_AbortsAtFirstError ==
    (CombineDone /\ ~AllValid(call.readers)) =>
        LET i == FirstBad(call.readers)
        IN  /\ ret.err = ErrorOf(call.readers[i])
            /\ ret.out = NoBytes
            /\ readers = SubSeq(call.readers, i + 1, Len(call.readers))
            /\ Len(tw.ents) >= EntriesBefore(call.readers, i)
            /\ \A j \in 1..EntriesBefore(call.readers, i) :
                \E k \in 1..(i - 1) :
                    \E m \in 1..Len(call.readers[k].ents) :
                        /\ j = EntriesBefore(call.readers, k) + m
                        /\ tw.ents[j] = call.readers[k].ents[m]

\* The second source fails inside its second payload after the first
\* source's entry and its own first entry were written; nil is returned.
C11_Witness ==
    /\ CombineDone
    /\ Len(call.readers) = 2
    /\ Valid(call.readers[1]) /\ Len(call.readers[1].ents) = 1
    /\ Len(call.readers[2].ents) = 2
    /\ ~Full(call.readers[2].ents[2])
    /\ Len(tw.ents) = 3
    /\ tw.ents[1] = call.readers[1].ents[1]
    /\ ret = [out |-> NoBytes, err |-> Err("decode")]

\* The first source has a bad gzip header; the second, a valid archive with
\* an entry, is left unread and nothing was written.
C11_WitnessUnread ==
    /\ CombineDone
    /\ Len(call.readers) = 2
    /\ call.readers[1] = BadGzip
    /\ Valid(call.readers[2]) /\ Len(call.readers[2].ents) = 1
    /\ readers = <<call.readers[2]>>
    /\ tw.ents = <<>>
    /\ ret = [out |-> NoBytes, err |-> Err("gzip")]

\* C13: the combine of no sources returns, without error, bytes that a
\* reader opens and that give end-of-stream at the first request for an entry.
C13_EmptyCombineIsEmptyArchive ==
    (CombineDone /\ call.readers = <<>>) =>
        /\ ret.err = NoErr
        /\ ret.out # NoBytes
        /\ NewReader(ret.out).err = NoErr
        /\ TarNext(NewReader(ret.out).rd).kind = "eof"

\* The combine of no sources has returned the archive of no entries.
C13_Witness ==
    /\ CombineDone
    /\ call.readers = <<>>
    /\ ret = [out |-> Tgz(<<>>), err |-> NoErr]

-----------------------------------------------------------------------------
(* Properties of WriteTarballToTarWriter.                                  *)

TranscodeDone == pc = "done" /\ call.op = "Transcode"

\* The name without one leading occurrence of a non-empty prefix it begins with.
Strip(n, p) ==
    IF p # <<>> /\ Len(p) <= Len(n) /\ [i \in 1..Len(p) |-> n[i]] = p
    THEN [i \in 1..(Len(n) - Len(p)) |-> n[i + Len(p)]]
    ELSE n

\* The writer can take a header: open, not failed, no entry in progress.
AtBoundary(w) == w.open /\ ~w.stuck /\ Missing(w) = 0

\* C9: on a valid archive and a writer that can take a header the transcoder
\* succeeds and has appended to the writer, in input order, one entry per
\* input entry, payload and size unchanged, the name without one leading
\* occurrence of the non-empty prefix it begins with and otherwise unchanged
\* (so with the empty prefix the appended entries are the input entries);
\* nothing else of the writer changes.
C9_EntriesRenamedInOrder ==
    TranscodeDone /\ Valid(call.data) /\ AtBoundary(call.tw) =>
        /\ ret.err = NoErr
        /\ tw = [call.tw EXCEPT !.ents = @ \o
                    [i \in 1..Len(call.data.ents) |->
                        [call.data.ents[i] EXCEPT !.name =
                            Strip(@, call.pathPrefixToTrim)]]]

\* A name that begins with the prefix twice loses it once, next to a name
\* that keeps the prefix it has in the middle.
C9_Witness ==
    /\ TranscodeDone
    /\ ret.err = NoErr
    /\ call.tw.ents # <<>>
    /\ call.pathPrefixToTrim = <<"b", "/">>
    /\ Len(call.data.ents) = 2
    /\ call.data.ents[1].name = <<"b", "/", "b", "/", "a">>
    /\ tw.ents[Len(call.tw.ents) + 1].name = <<"b", "/", "a">>
    /\ tw.ents[Len(call.tw.ents) + 1].data = <<1>>
    /\ tw.ents[Len(call.tw.ents) + 2].name = <<"a">>

\* The call has returned nil.
Transcoded == TranscodeDone /\ ret.err = NoErr

\* The writer is as open as the caller handed it over.
WriterNotClosed == call.op = "Transcode" => tw.open = call.tw.open

\* C14 as stated: the transcoder never closes the caller's writer, and after
\* a successful return the writer has no entry in progress and takes a
\* further header.
C14_OpenAndAtBoundary ==
    /\ WriterNotClosed
    /\ Transcoded =>
        /\ Missing(tw) = 0
        /\ TarWriteHeader(tw, Header(OldEntry)).err = NoErr

\* C14 amended: the transcoder never closes the caller's writer, on any
\* path; after a successful return the writer is at an entry boundary and
\* takes a further header if it was at one when handed over, which it was
\* whenever the archive holds an entry; a successful call on an archive of no
\* entries leaves the writer as it was handed over.
C14_OpenAndAtBoundaryIfHandedSo ==
    /\ WriterNotClosed
    /\ Transcoded =>
        /\ AtBoundary(call.tw) =>
            /\ AtBoundary(tw)
            /\ TarWriteHeader(tw, Header(OldEntry)).err = NoErr
        /\ call.data.ents # <<>> => AtBoundary(call.tw)
        /\ call.data.ents = <<>> => tw = call.tw

\* Two entries, the last with payload, were appended to a writer that held
\* a whole entry; the writer is open and at an entry boundary.
C14_Witness ==
    /\ Transcoded
    /\ call.tw = [NewWriter EXCEPT !.ents = <<OldEntry>>]
    /\ Len(call.data.ents) = 2
    /\ call.data.ents[2].size = 1
    /\ Len(tw.ents) = 3
    /\ AtBoundary(tw)

-----------------------------------------------------------------------------
(* Properties of the copy loops of CombineTarballs and                     *)
(* WriteTarballToTarWriter.                                                *)

\* The call is inside its loop over the entries of one source.
InLoop == pc \in {"next", "header", "copy"}

\* The entries the writer held when the loop over this source began.
Held ==
    IF call.op = "Transcode" THEN Len(call.tw.ents)
    ELSE EntriesBefore(call.readers, Len(call.readers) - Len(readers))

\* Entry j of the writer, counted from the start of this source, is entry j
\* of the reader with its declared size of payload.
Copied(j) ==
    /\ tw.ents[Held + j].size = rd.ents[j].size
    /\ tw.ents[Held + j].data = rd.ents[j].data
    /\ Full(tw.ents[Held + j])

\* C15: inside the loops the cursor alternates.  When the next header is
\* requested ("next") the writer holds, for every header read so far, the
\* header and exactly its declared size of payload; when a header is pending
\* ("header") the writer holds that for all entries before it and nothing of
\* it; when a payload is in progress ("copy") the writer holds its header and
\* none of its payload yet.  No entry is skipped or written twice, and the
\* combine closes the writer with every entry whole.
C15_CursorAlternates ==
    /\ InLoop =>
        /\ rd.pos <= Len(rd.ents)
        /\ pc = "next" =>
            /\ Len(tw.ents) = Held + rd.pos
            /\ \A j \in 1..rd.pos : Copied(j)
        /\ pc = "header" =>
            /\ rd.pos >= 1
            /\ Len(tw.ents) = Held + rd.pos - 1
            /\ \A j \in 1..(rd.pos - 1) : Copied(j)
            /\ hdr.size = rd.ents[rd.pos].size
        /\ pc = "copy" =>
            /\ rd.pos >= 1
            /\ Len(tw.ents) = Held + rd.pos
            /\ \A j \in 1..(rd.pos - 1) : Copied(j)
            /\ tw.ents[Held + rd.pos].size = rd.ents[rd.pos].size
            /\ tw.ents[Held + rd.pos].data = <<>>
    /\ (CombineDone /\ ret.err = NoErr) =>
        /\ tw.footer
        /\ \A j \in 1..Len(tw.ents) : Full(tw.ents[j])

\* The transcoder is about to request the third header of an archive; the
\* writer holds the caller's entry and the first two entries, the second
\* with its payload.
C15_Witness ==
    /\ pc = "next" /\ call.op = "Transcode"
    /\ Len(call.data.ents) = 3
    /\ rd.pos = 2
    /\ call.tw.ents = <<OldEntry>>
    /\ Len(tw.ents) = 3
    /\ tw.ents[3].size = 1 /\ tw.ents[3].data = <<1>>

-----------------------------------------------------------------------------
(* Properties of CreateGzippedTarball.                                     *)

CreateDone == pc = "done" /\ call.op = "Create"

\* The call archived a directory and returned nil.
BuiltDir(removeFiles) ==
    /\ CreateDone
    /\ call.removeFiles = removeFiles
    /\ ret.err = NoErr
    /\ Lookup(old, call.path).kind = "dir"

\* The direct children the call found in the directory, as clean paths.
OldChildren == { Join(call.path, n) : n \in Children(old, call.path) }

\* The archive at the destination path after the call.
OnDisk == AsArchive(disk[dst.path].data)

Added == { i \in 1..Len(log) : log[i].did = "add" }

HasSubdirectory ==
    /\ CreateDone
    /\ Lookup(old, call.path).kind = "dir"
    /\ \E f \in OldChildren : old[f].kind = "dir"

\* C16 as stated: a build of a directory with subdirectories among its
\* direct children succeeds, and the archive holds the direct regular-file
\* children and nothing else.
C16_SubdirectoriesSkipped ==
    HasSubdirectory =>
        /\ ret.err = NoErr
        /\ Names(OnDisk) =
            { Rel(Dir(call.path), f).path :
                f \in { g \in OldChildren \ {dst.path} : old[g].kind = "file" } }

\* The call has created its destination file, and that file lies in the
\* directory being archived.
DestinationInside ==
    /\ call.op = "Create"
    /\ dst.path # <<>>
    /\ Lookup(old, call.path).kind = "dir"
    /\ Dir(dst.path) = Clean(call.path)

\* C17 as stated: a destination inside the directory being archived,
\* however its path is spelled, never gets an entry of its own in the
\* archive and is never deleted.
C17_DestinationNeverAddedNorDeleted ==
    DestinationInside =>
        /\ \A j \in 1..Len(tw.ents) :
            tw.ents[j].name # Rel(Dir(call.path), dst.path).path
        /\ dst.linked
        /\ Lookup(disk, call.tarFilePath).kind = "file"

\* The call got as far as its list of file paths.
Listing == call.op = "Create" /\ dst.path # <<>>

\* The file paths of lines 85-93, from the disk as the call found it and the
\* destination it created.
FilePaths ==
    IF Lookup(old, call.path).kind = "dir"
    THEN Glob([old EXCEPT ![dst.path] = File(Raw(<<>>))], call.path)
    ELSE <<call.path>>

IsAdd(e) == e.did = "add"
AddedLog == SelectSeq(log, IsAdd)

\* C18: with removeFiles the outcome is fixed by the files alone, whatever
\* the deletions did.  The loop has gone through the file paths in order,
\* past every failed deletion; it returns nil once all are done, and an
\* error only for the file path whose add failed; the entries written are
\* those of the files added, each source file with the content it had
\* before the call.
C18_OutcomeIndependentOfDeletions ==
    (Listing /\ pc = "done" /\ call.removeFiles) =>
        /\ Len(log) <= Len(FilePaths)
        /\ \A i \in 1..Len(log) : log[i].path = FilePaths[i]
        /\ ret.err = NoErr => Len(log) = Len(FilePaths)
        /\ ret.err # NoErr =>
            /\ Len(log) < Len(FilePaths)
            /\ ret.err = ErrAt("add", FilePaths[Len(log) + 1])
        /\ Len(tw.ents) >= Len(AddedLog)
        /\ ret.err = NoErr => Len(tw.ents) = Len(AddedLog)
        /\ \A k \in 1..Len(AddedLog) :
            /\ tw.ents[k].name = Rel(Dir(call.path), AddedLog[k].path).path
            /\ tw.ents[k].data = AddedLog[k].data
            /\ Clean(AddedLog[k].path) # dst.path =>
                AddedLog[k].data = FileBytes(Lookup(old, AddedLog[k].path).data)

\* The deletion of the first file failed, the second file was added and
\* deleted all the same, and the call returned nil with both in the archive.
C18_Witness ==
    /\ Listing /\ pc = "done" /\ call.removeFiles
    /\ ret.err = NoErr
    /\ Len(log) >= 2
    /\ log[1].did = "add" /\ log[1].rm = "failed"
    /\ log[2].did = "add" /\ log[2].rm = "ok"
    /\ Lookup(disk, log[1].path).kind = "file"
    /\ Lookup(disk, log[2].path).kind = "none"
    /\ Len(tw.ents) = 2
    /\ dst.linked /\ disk[dst.path] = File(Bytes(tw))

\* C19 as stated: when a build with removeFiles returns an error, every
\* source file is still on disk as it was before the call.
C19_NoRemovalOnFailure ==
    (CreateDone /\ call.removeFiles /\ ret.err # NoErr) =>
        \A p \in Paths \ {dst.path} :
            old[p].kind = "file" => disk[p] = old[p]

-----------------------------------------------------------------------------
(* Properties of two transcodes against one writer and the combine.        *)

\* The caller has done both transcodes, closed its writer, and the combine
\* of the same two archives has returned.
PairDone == CombineDone /\ Len(log) = 3

\* q begins with p.
IsPrefix(p, q) == Len(p) <= Len(q) /\ SubSeq(q, 1, Len(p)) = p

\* C20: when both transcodes succeed, the closed writer holds the bytes the
\* combine returns, entry for entry; when the first succeeds and the second
\* fails, the entries of A are still in the caller's open writer, while the
\* combine returns the same error and no bytes.
C20_TwoTranscodesEqualCombine ==
    PairDone =>
        /\ (log[1].err = NoErr /\ log[2].err = NoErr) =>
            /\ ret.err = NoErr
            /\ ret.out = log[3].out
            /\ ret.out.ents = todo[1].ents \o todo[2].ents
        /\ (log[1].err = NoErr /\ log[2].err # NoErr) =>
            /\ ret = [out |-> NoBytes, err |-> log[2].err]
            /\ log[2].tw.open
            /\ IsPrefix(todo[1].ents, log[2].tw.ents)

\* Both archives have an entry, both transcodes succeeded, and the combine
\* returned the two entries the closed writer holds.
C20_Witness ==
    /\ PairDone
    /\ log[1].err = NoErr /\ log[2].err = NoErr
    /\ Len(todo[1].ents) = 1 /\ Len(todo[2].ents) = 2
    /\ Len(log[3].out.ents) = 3
    /\ ret.out = log[3].out

\* A has an entry and B fails after one: the writer keeps A's entry and
\* B's first, and the combine returned nil.
C20_WitnessFailure ==
    /\ PairDone
    /\ log[1].err = NoErr /\ log[2].err # NoErr
    /\ Len(todo[1].ents) = 1 /\ Len(todo[2].ents) = 1
    /\ todo[2].end = "err"
    /\ Len(log[2].tw.ents) = 2
    /\ ret.out = NoBytes

-----------------------------------------------------------------------------
(* Properties of every operation.                                          *)

\* What a returned call has left open: the reader it opened, the file it
\* opened, and the writer if the call made it (WriteTarballToTarWriter is
\* handed its writer).
LeftOpen ==
    {x \in {"reader"} : rd.open}
    \cup {x \in {"file"} : dst.open}
    \cup {x \in {"writer"} : tw.open /\ call.op \in {"Combine", "Create"}}

\* C12: when an operation has returned, by any path, every reader, writer
\* and file it opened is closed.
C12_AllClosedOnReturn == pc = "done" => LeftOpen = {}

=============================================================================
